---- MODULE Spec2Model ----
(***************************************************************************)
(* Model of compiler/Codegen/Dialect/LoweringConfig.cpp: the attributes    *)
(* iree_codegen.translation_info, iree_codegen.lowering_config and         *)
(* iree_codegen.compilation_info, their verifiers, the helpers that attach *)
(* them to operations, and getDistributionTileConfigFromLoweringConfig.    *)
(***************************************************************************)
EXTENDS Integers, Sequences, FiniteSets

VARIABLES
  verified,              \* the last verifier invocation: operation, arguments, result
  attrs,                 \* attribute dictionary of the operation: name -> Attribute
  workgroup_size,        \* the entry point's workgroup_size slot
  lastCall,              \* the last attachment helper invoked and what it returned
  history,               \* per attribute name, what the helpers wrote last
  lastWorkgroupSize,     \* the last non-empty workgroup size handed to setTranslationInfo
  computeOps,            \* argument of getDistributionTileConfigFromLoweringConfig
  distributedTileSizes,  \* output argument
  interchange,           \* output argument
  pc,                    \* "idle", "loop", "success" or "failure"
  idx,                   \* position of the for loop in computeOps
  anchor,                \* position in computeOps of the op the error is emitted on
  entryContents,         \* what the output arguments held when the call was entered
  prevOutcome            \* outcome of the previous completed call on computeOps

vars == <<verified, attrs, workgroup_size, lastCall, history, lastWorkgroupSize,
          computeOps, distributedTileSizes, interchange, pc, idx, anchor,
          entryContents, prevOutcome>>

verifyVars == <<verified>>
attachVars == <<attrs, workgroup_size, lastCall, history, lastWorkgroupSize>>
resolveVars == <<computeOps, distributedTileSizes, interchange, pc, idx, anchor,
                 entryContents, prevOutcome>>

-----------------------------------------------------------------------------
(* Attributes.  A null attribute handle is NullAttr.                       *)

NullAttr == [kind |-> "null"]
IntegerAttr(type, v) == [kind |-> "integer", type |-> type, value |-> v]
StringAttr == [kind |-> "string"]
ArrayAttr(elems) == [kind |-> "array", elems |-> elems]

IsNull(attr) == attr.kind = "null"
isaIntegerAttr(attr) == attr.kind = "integer"
isaArrayAttr(attr) == attr.kind = "array"

Range(s) == {s[i] : i \in DOMAIN s}

SeqsUpTo(S, n) == UNION {[1..k -> S] : k \in 0..n}

-----------------------------------------------------------------------------
(* Utility functions for common code patterns.                             *)

checkIntegerArrayAttr(arrayAttr) ==
  ~(\E i \in DOMAIN arrayAttr.elems : ~isaIntegerAttr(arrayAttr.elems[i]))

getIndexIntegerArrayAttr(values) ==
  ArrayAttr([i \in DOMAIN values |-> IntegerAttr("index", values[i])])

getI64IntegerArrayAttr(values) ==
  ArrayAttr([i \in DOMAIN values |-> IntegerAttr("i64", values[i])])

getIntegerVals(arrayAttr) ==
  IF IsNull(arrayAttr) THEN <<>>
  ELSE [i \in DOMAIN arrayAttr.elems |-> arrayAttr.elems[i].value]

-----------------------------------------------------------------------------
(* iree_codegen.translation_info                                           *)

\* DispatchLoweringPassPipeline::None, the enumerator the verifier compares to.
None == 255

DispatchLoweringPassPipelineAttr(v) == [kind |-> "pipeline", value |-> v]

TranslationInfoAttr(passPipeline, workloadPerWorkgroup) ==
  [kind |-> "translation_info", passPipeline |-> passPipeline,
   workloadPerWorkgroup |-> workloadPerWorkgroup]

TranslationInfoAttr_get(passPipeline, workloadPerWorkgroup) ==
  TranslationInfoAttr(DispatchLoweringPassPipelineAttr(passPipeline),
                      getI64IntegerArrayAttr(workloadPerWorkgroup))

TranslationInfoAttr_verify(passPipeline, workloadPerWorkgroup) ==
  IF IsNull(passPipeline) THEN "MissingField"
  ELSE IF passPipeline.value > None THEN "InvalidEnumValue"
  ELSE "ok"

-----------------------------------------------------------------------------
(* iree_codegen.lowering_config                                            *)

LoweringConfigAttr(tileSizes, tileInterchange, nativeVectorSize) ==
  [kind |-> "lowering_config", tileSizes |-> tileSizes,
   tileInterchange |-> tileInterchange, nativeVectorSize |-> nativeVectorSize]

LoweringConfigAttr_get(tileSizes, tileInterchange, nativeVectorSize) ==
  LoweringConfigAttr(
    ArrayAttr([i \in DOMAIN tileSizes |-> getI64IntegerArrayAttr(tileSizes[i])]),
    ArrayAttr([i \in DOMAIN tileInterchange |->
                 getI64IntegerArrayAttr(tileInterchange[i])]),
    getI64IntegerArrayAttr(nativeVectorSize))

\* Levels are counted from 0; sequences are indexed from 1.
getTileSizeVals(config, level) ==
  IF IsNull(config.tileSizes) \/ Len(config.tileSizes.elems) <= level THEN <<>>
  ELSE getIntegerVals(config.tileSizes.elems[level + 1])

getTileInterchangeVals(config, level) ==
  IF IsNull(config.tileInterchange) \/ Len(config.tileInterchange.elems) <= level
  THEN <<>>
  ELSE getIntegerVals(config.tileInterchange.elems[level + 1])

hasNonIntElems(sizes) ==
  \E i \in DOMAIN sizes.elems :
    ~isaArrayAttr(sizes.elems[i]) \/ ~checkIntegerArrayAttr(sizes.elems[i])

\* Variant that checks native_vector_size before tile_interchange.
LoweringConfigAttr_verify_nvsFirst(tileSizes, tileInterchange, nativeVectorSize) ==
  IF IsNull(tileSizes) THEN "MissingField"
  ELSE IF hasNonIntElems(tileSizes) THEN "MalformedTileSizes"
  ELSE IF ~IsNull(nativeVectorSize) /\ ~checkIntegerArrayAttr(nativeVectorSize)
    THEN "MalformedVectorSize"
  ELSE IF ~IsNull(tileInterchange) /\ hasNonIntElems(tileInterchange)
    THEN "MalformedInterchange"
  ELSE "ok"

LoweringConfigAttr_verify(tileSizes, tileInterchange, nativeVectorSize) ==
  IF IsNull(tileSizes) THEN "MissingField"
  ELSE IF hasNonIntElems(tileSizes) THEN "MalformedTileSizes"
  ELSE IF ~IsNull(tileInterchange) /\ hasNonIntElems(tileInterchange)
    THEN "MalformedInterchange"
  ELSE IF ~IsNull(nativeVectorSize) /\ ~checkIntegerArrayAttr(nativeVectorSize)
    THEN "MalformedVectorSize"
  ELSE "ok"

-----------------------------------------------------------------------------
(* iree.compilation_info                                                   *)

CompilationInfoAttr(loweringConfig, translationInfo, workgroupSize) ==
  [kind |-> "compilation_info", loweringConfig |-> loweringConfig,
   translationInfo |-> translationInfo, workgroupSize |-> workgroupSize]

CompilationInfoAttr_get(configAttr, translationInfo, workgroupSize) ==
  CompilationInfoAttr(configAttr, translationInfo,
                      getI64IntegerArrayAttr(workgroupSize))

\* Variant that checks both sub-objects for presence before verifying either.
CompilationInfoAttr_verify_absentFirst(loweringConfig, translationInfo, workgroupSize) ==
  IF IsNull(loweringConfig) THEN "MissingLoweringConfig"
  ELSE IF IsNull(translationInfo) THEN "MissingTranslationInfo"
  ELSE IF LoweringConfigAttr_verify(loweringConfig.tileSizes,
                                    loweringConfig.tileInterchange,
                                    loweringConfig.nativeVectorSize) # "ok"
    THEN LoweringConfigAttr_verify(loweringConfig.tileSizes,
                                   loweringConfig.tileInterchange,
                                   loweringConfig.nativeVectorSize)
  ELSE IF TranslationInfoAttr_verify(translationInfo.passPipeline,
                                     translationInfo.workloadPerWorkgroup) # "ok"
    THEN TranslationInfoAttr_verify(translationInfo.passPipeline,
                                    translationInfo.workloadPerWorkgroup)
  ELSE IF ~IsNull(workgroupSize) /\ ~checkIntegerArrayAttr(workgroupSize)
    THEN "MalformedWorkgroupSize"
  ELSE "ok"

CompilationInfoAttr_verify(loweringConfig, translationInfo, workgroupSize) ==
  IF IsNull(loweringConfig) THEN "MissingLoweringConfig"
  ELSE IF LoweringConfigAttr_verify(loweringConfig.tileSizes,
                                    loweringConfig.tileInterchange,
                                    loweringConfig.nativeVectorSize) # "ok"
    THEN LoweringConfigAttr_verify(loweringConfig.tileSizes,
                                   loweringConfig.tileInterchange,
                                   loweringConfig.nativeVectorSize)
  ELSE IF IsNull(translationInfo) THEN "MissingTranslationInfo"
  ELSE IF TranslationInfoAttr_verify(translationInfo.passPipeline,
                                     translationInfo.workloadPerWorkgroup) # "ok"
    THEN TranslationInfoAttr_verify(translationInfo.passPipeline,
                                    translationInfo.workloadPerWorkgroup)
  ELSE IF ~IsNull(workgroupSize) /\ ~checkIntegerArrayAttr(workgroupSize)
    THEN "MalformedWorkgroupSize"
  ELSE "ok"

-----------------------------------------------------------------------------
(* Verifier invocations.  The attributes handed to a verifier are built     *)
(* from integer and non-integer elements, nested up to MaxLevels entries of *)
(* up to MaxLen elements each.                                              *)

MaxLen == 1
MaxLevels == 2

ElementAttrs == {IntegerAttr("i64", 4), StringAttr}
FlatArrays == {ArrayAttr(s) : s \in SeqsUpTo(ElementAttrs, MaxLen)}
LevelEntries == FlatArrays \cup {StringAttr}
NestedArrays == {ArrayAttr(s) : s \in SeqsUpTo(LevelEntries, MaxLevels)}

PipelineAttrs ==
  {DispatchLoweringPassPipelineAttr(v) : v \in {0, None - 1, None, None + 1}}
TranslationInfos ==
  {TranslationInfoAttr(p, w) :
     p \in PipelineAttrs \cup {NullAttr},
     w \in {NullAttr, getI64IntegerArrayAttr(<<4>>)}}

\* Sub-objects of the compilation infos handed to CompilationInfoAttr::verify:
\* each field absent, empty, well formed or malformed.
NestedSamples ==
  {NullAttr, ArrayAttr(<<>>), ArrayAttr(<<getI64IntegerArrayAttr(<<4>>)>>),
   ArrayAttr(<<StringAttr>>), ArrayAttr(<<ArrayAttr(<<StringAttr>>)>>)}
FlatSamples ==
  {NullAttr, getI64IntegerArrayAttr(<<4>>), ArrayAttr(<<StringAttr>>)}
CompilationLoweringConfigs ==
  {LoweringConfigAttr(ts, ti, nvs) :
     ts \in NestedSamples, ti \in NestedSamples, nvs \in FlatSamples}

NoCall == [op |-> "none", args |-> <<>>, result |-> "ok"]

VerifyTranslationInfo ==
  /\ verified = NoCall
  /\ \E p \in PipelineAttrs \cup {NullAttr},
        w \in {NullAttr, getI64IntegerArrayAttr(<<4>>)} :
       verified' = [op |-> "TranslationInfoAttr::verify", args |-> <<p, w>>,
                    result |-> TranslationInfoAttr_verify(p, w)]
  /\ UNCHANGED <<attachVars, resolveVars>>

VerifyLoweringConfig ==
  /\ verified = NoCall
  /\ \E ts \in NestedArrays \cup {NullAttr},
        ti \in NestedArrays \cup {NullAttr},
        nvs \in FlatArrays \cup {NullAttr} :
       verified' = [op |-> "LoweringConfigAttr::verify", args |-> <<ts, ti, nvs>>,
                    result |-> LoweringConfigAttr_verify(ts, ti, nvs)]
  /\ UNCHANGED <<attachVars, resolveVars>>

VerifyCompilationInfo ==
  /\ verified = NoCall
  /\ \E lc \in CompilationLoweringConfigs \cup {NullAttr},
        ti \in TranslationInfos \cup {NullAttr},
        wgs \in FlatSamples :
       verified' = [op |-> "CompilationInfoAttr::verify", args |-> <<lc, ti, wgs>>,
                    result |-> CompilationInfoAttr_verify(lc, ti, wgs)]
  /\ UNCHANGED <<attachVars, resolveVars>>

VerifyReturn ==
  /\ verified # NoCall
  /\ verified' = NoCall
  /\ UNCHANGED <<attachVars, resolveVars>>

-----------------------------------------------------------------------------
(* Helpers for getting/setting the attributes on an operation.  The        *)
(* operation is a hal.executable.entry_point, so that every helper applies. *)

kConfigAttrName == "lowering_config"
kTranslationInfoAttrName == "translation_info"
kCompilationInfoAttrName == "compilation_info"
AttrNames == {kConfigAttrName, kTranslationInfoAttrName, kCompilationInfoAttrName}

\* Operation::getAttrOfType<T>(name): null unless the attribute is a T.
getAttrOfType(name, kind) ==
  IF attrs[name].kind = kind THEN attrs[name] ELSE NullAttr

getTranslationInfo == getAttrOfType(kTranslationInfoAttrName, "translation_info")

getWorkgroupSize ==
  IF ~IsNull(workgroup_size) THEN getIntegerVals(workgroup_size) ELSE <<>>

\* Variant that writes the workgroup size even when it is empty.
setTranslationInfo_alwaysWrites(translationInfo, workgroupSize) ==
  /\ attrs' = [attrs EXCEPT ![kTranslationInfoAttrName] = translationInfo]
  /\ workgroup_size' = getIndexIntegerArrayAttr(workgroupSize)

setTranslationInfo(translationInfo, workgroupSize) ==
  /\ attrs' = [attrs EXCEPT ![kTranslationInfoAttrName] = translationInfo]
  /\ workgroup_size' = IF workgroupSize # <<>>
                       THEN getIndexIntegerArrayAttr(workgroupSize)
                       ELSE workgroup_size

getLoweringConfig == getAttrOfType(kConfigAttrName, "lowering_config")

getTileSizes(level) ==
  IF IsNull(getLoweringConfig) THEN <<>>
  ELSE getTileSizeVals(getLoweringConfig, level)

setLoweringConfig(config) ==
  attrs' = [attrs EXCEPT ![kConfigAttrName] = config]

getCompilationInfo == getAttrOfType(kCompilationInfoAttrName, "compilation_info")

\* Variant that attaches the compilation info under the lowering config's name.
setCompilationInfo_underConfigName(config) ==
  attrs' = [attrs EXCEPT ![kConfigAttrName] = config]

setCompilationInfo(config) ==
  attrs' = [attrs EXCEPT ![kCompilationInfoAttrName] = config]

eraseCompilationInfo ==
  attrs' = [attrs EXCEPT ![kCompilationInfoAttrName] = NullAttr]

\* The attribute values the passes attach.
AttachedLoweringConfigs ==
  {LoweringConfigAttr_get(<<<<4, 4>>>>, <<>>, <<>>),
   LoweringConfigAttr_get(<<<<4, 8>>, <<2>>>>, <<<<1, 0>>>>, <<4>>)}
AttachedTranslationInfos ==
  {TranslationInfoAttr_get(0, <<>>), TranslationInfoAttr_get(None, <<4>>)}
AttachedCompilationInfos ==
  {CompilationInfoAttr_get(lc, TranslationInfoAttr_get(None, <<>>), <<>>) :
     lc \in AttachedLoweringConfigs}
WorkgroupSizes == {<<>>, <<32, 1, 1>>, <<64, 2, 1>>}

GetTranslationInfo ==
  /\ lastCall' = [op |-> "getTranslationInfo", result |-> getTranslationInfo]
  /\ UNCHANGED <<attrs, workgroup_size, history, lastWorkgroupSize>>
  /\ UNCHANGED <<verifyVars, resolveVars>>

GetWorkgroupSize ==
  /\ lastCall' = [op |-> "getWorkgroupSize", result |-> getWorkgroupSize]
  /\ UNCHANGED <<attrs, workgroup_size, history, lastWorkgroupSize>>
  /\ UNCHANGED <<verifyVars, resolveVars>>

SetTranslationInfo ==
  /\ \E info \in AttachedTranslationInfos, wgs \in WorkgroupSizes :
       /\ setTranslationInfo(info, wgs)
       /\ lastCall' = [op |-> "setTranslationInfo", result |-> wgs]
       /\ history' = [history EXCEPT ![kTranslationInfoAttrName] = info]
       /\ lastWorkgroupSize' = IF wgs # <<>> THEN wgs ELSE lastWorkgroupSize
  /\ UNCHANGED <<verifyVars, resolveVars>>

GetLoweringConfig ==
  /\ lastCall' = [op |-> "getLoweringConfig", result |-> getLoweringConfig]
  /\ UNCHANGED <<attrs, workgroup_size, history, lastWorkgroupSize>>
  /\ UNCHANGED <<verifyVars, resolveVars>>

GetTileSizes ==
  /\ \E level \in 0..MaxLevels :
       lastCall' = [op |-> "getTileSizes", result |-> getTileSizes(level)]
  /\ UNCHANGED <<attrs, workgroup_size, history, lastWorkgroupSize>>
  /\ UNCHANGED <<verifyVars, resolveVars>>

SetLoweringConfig ==
  /\ \E config \in AttachedLoweringConfigs :
       /\ setLoweringConfig(config)
       /\ lastCall' = [op |-> "setLoweringConfig", result |-> NullAttr]
       /\ history' = [history EXCEPT ![kConfigAttrName] = config]
  /\ UNCHANGED <<workgroup_size, lastWorkgroupSize, verifyVars, resolveVars>>

GetCompilationInfo ==
  /\ lastCall' = [op |-> "getCompilationInfo", result |-> getCompilationInfo]
  /\ UNCHANGED <<attrs, workgroup_size, history, lastWorkgroupSize>>
  /\ UNCHANGED <<verifyVars, resolveVars>>

SetCompilationInfo ==
  /\ \E config \in AttachedCompilationInfos :
       /\ setCompilationInfo(config)
       /\ lastCall' = [op |-> "setCompilationInfo", result |-> NullAttr]
       /\ history' = [history EXCEPT ![kCompilationInfoAttrName] = config]
  /\ UNCHANGED <<workgroup_size, lastWorkgroupSize, verifyVars, resolveVars>>

\* Operation::removeAttr returns the attribute it removed (null if none).
EraseCompilationInfo ==
  /\ eraseCompilationInfo
  /\ lastCall' = [op |-> "eraseCompilationInfo",
                  result |-> attrs[kCompilationInfoAttrName]]
  /\ history' = [history EXCEPT ![kCompilationInfoAttrName] = NullAttr]
  /\ UNCHANGED <<workgroup_size, lastWorkgroupSize, verifyVars, resolveVars>>

-----------------------------------------------------------------------------
(* getDistributionTileConfigFromLoweringConfig.  A compute op is described  *)
(* by whether it implements PartitionableLoopsInterface, the loops the      *)
(* interface returns, and the lowering config attached to it.               *)

ComputeOp(hasInterface, partitionableLoops, config) ==
  [hasInterface |-> hasInterface, partitionableLoops |-> partitionableLoops,
   lowering_config |-> config]

\* The ops the loop does not `continue` over.
Contributes(op) == op.hasInterface /\ ~IsNull(op.lowering_config)

\* Variant that sizes the array by the number of partitionable loops.
resized_byCount(partitionableLoops) ==
  [i \in 1..Len(partitionableLoops) |-> 0]

\* currDistributedTileSizes after the resize.
resized(partitionableLoops) ==
  IF partitionableLoops # <<>>
  THEN [i \in 1..(partitionableLoops[Len(partitionableLoops)] + 1) |-> 0]
  ELSE <<>>

\* The loop IDs whose tile size the fill loop stores (0-based positions).
writtenLoopIDs(partitionableLoops, tileSizes) ==
  {id \in Range(partitionableLoops) : id < Len(tileSizes)}

\* currDistributedTileSizes after the fill loop.  Arrays are 0-based in the
\* source and 1-based here.  The loop ids arrive in ascending order, so the
\* last one is the largest and every store lands inside the resized array; a
\* store past its end would be undefined behaviour and has no counterpart here.
filled(partitionableLoops, tileSizes) ==
  [i \in DOMAIN resized(partitionableLoops) |->
     IF (i - 1) \in writtenLoopIDs(partitionableLoops, tileSizes)
     THEN tileSizes[i] ELSE 0]

currDistributedTileSizes(op) ==
  filled(op.partitionableLoops, getTileSizeVals(op.lowering_config, 0))

currInterchange(op) == getTileInterchangeVals(op.lowering_config, 0)

\* Variant that leaves the output vectors as the caller passed them.
clearOutputs_omitted ==
  UNCHANGED <<distributedTileSizes, interchange>>

clearOutputs ==
  /\ distributedTileSizes' = <<>>
  /\ interchange' = <<>>

NoOutcome == [status |-> "none"]
Outcome ==
  [status |-> pc, tileSizes |-> distributedTileSizes, interchange |-> interchange,
   anchor |-> anchor]

Done == pc \in {"success", "failure"}

Call ==
  /\ pc = "idle" \/ Done
  /\ entryContents' = <<distributedTileSizes, interchange>>
  /\ prevOutcome' = IF Done THEN Outcome ELSE NoOutcome
  /\ clearOutputs
  /\ pc' = IF computeOps = <<>> THEN "success" ELSE "loop"
  /\ idx' = 1
  /\ anchor' = 0
  /\ UNCHANGED <<computeOps, verifyVars, attachVars>>

Continue ==
  /\ pc = "loop" /\ idx <= Len(computeOps)
  /\ ~Contributes(computeOps[idx])
  /\ idx' = idx + 1
  /\ UNCHANGED <<computeOps, distributedTileSizes, interchange, pc, anchor,
                 entryContents, prevOutcome, verifyVars, attachVars>>

Assign ==
  /\ pc = "loop" /\ idx <= Len(computeOps)
  /\ Contributes(computeOps[idx])
  /\ distributedTileSizes = <<>>
  /\ distributedTileSizes' = currDistributedTileSizes(computeOps[idx])
  /\ interchange' = currInterchange(computeOps[idx])
  /\ idx' = idx + 1
  /\ UNCHANGED <<computeOps, pc, anchor, entryContents, prevOutcome,
                 verifyVars, attachVars>>

Consistent ==
  /\ pc = "loop" /\ idx <= Len(computeOps)
  /\ Contributes(computeOps[idx])
  /\ distributedTileSizes # <<>>
  /\ ~(\/ currDistributedTileSizes(computeOps[idx]) # distributedTileSizes
       \/ currInterchange(computeOps[idx]) # interchange)
  /\ idx' = idx + 1
  /\ UNCHANGED <<computeOps, distributedTileSizes, interchange, pc, anchor,
                 entryContents, prevOutcome, verifyVars, attachVars>>

\* The error is emitted on computeOps.front().
Inconsistent ==
  /\ pc = "loop" /\ idx <= Len(computeOps)
  /\ Contributes(computeOps[idx])
  /\ distributedTileSizes # <<>>
  /\ \/ currDistributedTileSizes(computeOps[idx]) # distributedTileSizes
     \/ currInterchange(computeOps[idx]) # interchange
  /\ pc' = "failure"
  /\ anchor' = 1
  /\ UNCHANGED <<computeOps, distributedTileSizes, interchange, idx,
                 entryContents, prevOutcome, verifyVars, attachVars>>

ReturnSuccess ==
  /\ pc = "loop" /\ idx > Len(computeOps)
  /\ pc' = "success"
  /\ UNCHANGED <<computeOps, distributedTileSizes, interchange, idx, anchor,
                 entryContents, prevOutcome, verifyVars, attachVars>>

\* The function as a whole, from cleared outputs: the outcome of the loop over
\* ops[i..], given the accumulated outputs.
RECURSIVE loopFrom(_, _, _, _)
loopFrom(ops, i, tiles, inter) ==
  IF i > Len(ops)
    THEN [status |-> "success", tileSizes |-> tiles, interchange |-> inter,
          anchor |-> 0]
  ELSE IF ~Contributes(ops[i]) THEN loopFrom(ops, i + 1, tiles, inter)
  ELSE IF tiles = <<>>
    THEN loopFrom(ops, i + 1, currDistributedTileSizes(ops[i]),
                  currInterchange(ops[i]))
  ELSE IF \/ currDistributedTileSizes(ops[i]) # tiles
          \/ currInterchange(ops[i]) # inter
    THEN [status |-> "failure", tileSizes |-> tiles, interchange |-> inter,
          anchor |-> 1]
  ELSE loopFrom(ops, i + 1, tiles, inter)

getDistributionTileConfigFromLoweringConfig(ops) == loopFrom(ops, 1, <<>>, <<>>)

-----------------------------------------------------------------------------
(* The dispatches the function is called on.                                *)

MaxOps == 3

TilesOnly(tileSizes) == LoweringConfigAttr_get(tileSizes, <<>>, <<>>)

ComputeOpUniverse ==
  { ComputeOp(FALSE, <<>>, TilesOnly(<<<<4, 4>>>>)),
    ComputeOp(TRUE, <<0, 1>>, NullAttr),
    ComputeOp(TRUE, <<>>, TilesOnly(<<<<4, 4>>>>)),
    ComputeOp(TRUE, <<>>, LoweringConfigAttr_get(<<<<4, 4>>>>, <<<<1, 0>>>>, <<>>)),
    ComputeOp(TRUE, <<0, 1>>, TilesOnly(<<<<4, 4>>>>)),
    ComputeOp(TRUE, <<0, 1>>, TilesOnly(<<<<4, 8>>>>)),
    ComputeOp(TRUE, <<0, 1>>,
              LoweringConfigAttr_get(<<<<4, 4>>, <<2, 2>>>>, <<<<>>, <<1, 0>>>>, <<4>>)),
    ComputeOp(TRUE, <<0, 1>>, TilesOnly(<<<<4>>>>)),
    ComputeOp(TRUE, <<0, 1>>, TilesOnly(<<<<4, 0>>>>)),
    ComputeOp(TRUE, <<0, 1>>, LoweringConfigAttr_get(<<<<4, 4>>>>, <<<<1, 0>>>>, <<>>)),
    ComputeOp(TRUE, <<1>>, TilesOnly(<<<<4, 4>>>>)),
    ComputeOp(TRUE, <<0, 1>>, TilesOnly(<<>>)) }

\* What the caller's output vectors hold before the first call.
PriorContents == {<<<<>>, <<>>>>, <<<<4, 4>>, <<1, 0>>>>}

InitVerify == verified = NoCall

InitAttach ==
  /\ attrs = [n \in AttrNames |-> NullAttr]
  /\ workgroup_size = NullAttr
  /\ lastCall = [op |-> "none", result |-> NullAttr]
  /\ history = [n \in AttrNames |-> NullAttr]
  /\ lastWorkgroupSize = <<>>

InitCall ==
  /\ pc = "idle"
  /\ idx = 1
  /\ anchor = 0
  /\ entryContents = <<<<>>, <<>>>>
  /\ prevOutcome = NoOutcome

Init ==
  /\ InitVerify /\ InitAttach /\ InitCall
  /\ computeOps \in SeqsUpTo(ComputeOpUniverse, MaxOps)
  /\ \E prior \in PriorContents :
       distributedTileSizes = prior[1] /\ interchange = prior[2]

Next ==
  \/ Call
  \/ Continue
  \/ Assign
  \/ Consistent
  \/ Inconsistent
  \/ ReturnSuccess

Spec == Init /\ [][Next]_vars

InitIdle ==
  /\ InitVerify /\ InitAttach /\ InitCall
  /\ computeOps = <<>>
  /\ distributedTileSizes = <<>> /\ interchange = <<>>

NextVerify ==
  \/ VerifyTranslationInfo
  \/ VerifyLoweringConfig
  \/ VerifyCompilationInfo
  \/ VerifyReturn

SpecVerify == InitIdle /\ [][NextVerify]_vars

NextAttach ==
  \/ GetTranslationInfo
  \/ GetWorkgroupSize
  \/ SetTranslationInfo
  \/ GetLoweringConfig
  \/ GetTileSizes
  \/ SetLoweringConfig
  \/ GetCompilationInfo
  \/ SetCompilationInfo
  \/ EraseCompilationInfo

SpecAttach == InitIdle /\ [][NextAttach]_vars

-----------------------------------------------------------------------------
(* Dispatches whose first op ranges over every combination of partitionable *)
(* loops (ascending loop ids, as PartitionableLoopsInterface returns them)  *)
(* and lowering config within the bounds, alone or followed by one more op. *)

MaxLoopId == 2
MaxTiles == 2

TileVals == {0, 4, 8}

AscendingSeq(S) ==
  CHOOSE s \in [1..Cardinality(S) -> S] :
    \A i, j \in 1..Cardinality(S) : i < j => s[i] < s[j]
PartitionableLoopChoices == {AscendingSeq(S) : S \in SUBSET (0..MaxLoopId)}

Level0TileSizes == SeqsUpTo(TileVals, MaxTiles)
TileSizeAttrs ==
  {NullAttr, ArrayAttr(<<>>)}
    \cup {ArrayAttr(<<getI64IntegerArrayAttr(t)>>) : t \in Level0TileSizes}
    \cup {ArrayAttr(<<getI64IntegerArrayAttr(t), getI64IntegerArrayAttr(<<8>>)>>) :
            t \in Level0TileSizes}
TileInterchangeAttrs ==
  {NullAttr, ArrayAttr(<<>>),
   ArrayAttr(<<getI64IntegerArrayAttr(<<1, 0>>)>>),
   ArrayAttr(<<getI64IntegerArrayAttr(<<>>), getI64IntegerArrayAttr(<<0, 1>>)>>),
   ArrayAttr(<<getI64IntegerArrayAttr(<<1, 0>>), getI64IntegerArrayAttr(<<0, 1>>)>>)}
GeneratedConfigs ==
  {NullAttr} \cup
  {LoweringConfigAttr(ts, ti, NullAttr) : ts \in TileSizeAttrs, ti \in TileInterchangeAttrs}
GeneratedOps ==
  {ComputeOp(TRUE, loops, c) : loops \in PartitionableLoopChoices, c \in GeneratedConfigs}
    \cup {ComputeOp(FALSE, <<>>, TilesOnly(<<<<4, 4>>>>))}
FollowingOps ==
  {ComputeOp(TRUE, <<0, 1>>, TilesOnly(<<<<4, 4>>>>)),
   ComputeOp(TRUE, <<0, 1>>, TilesOnly(<<<<4, 8>>, <<2>>>>))}

InitArray ==
  /\ InitVerify /\ InitAttach /\ InitCall
  /\ computeOps \in {<<op>> : op \in GeneratedOps}
                      \cup {<<op, next>> : op \in GeneratedOps, next \in FollowingOps}
  /\ distributedTileSizes = <<>> /\ interchange = <<>>

SpecArray == InitArray /\ [][Next]_vars

-----------------------------------------------------------------------------
(* Properties of getDistributionTileConfigFromLoweringConfig.               *)

Max(S) == CHOOSE m \in S : \A x \in S : x <= m

\* The (array, interchange) pair of a contributing op.
PairOf(op) == <<currDistributedTileSizes(op), currInterchange(op)>>

Contributing == {i \in DOMAIN computeOps : Contributes(computeOps[i])}

Permutations(n) ==
  {f \in [1..n -> 1..n] : \A i, j \in 1..n : f[i] = f[j] => i = j}

\* C1: whenever two contributing ops differ in their distributed tile sizes
\* or in their level-0 interchange (ops without partitionable loops, whose
\* array is empty, included), the call fails; it succeeds only when all
\* contributing ops have equal pairs.
C1_DisagreementFails ==
  Done =>
    ((\E i, j \in Contributing : PairOf(computeOps[i]) # PairOf(computeOps[j]))
       => pc = "failure")

\* C2: if the call fails on a list of ops, it fails on every permutation of
\* the list, with the error emitted on the first op of the permuted list.
C2_FailureUnderPermutation ==
  pc = "failure" =>
    \A f \in Permutations(Len(computeOps)) :
      LET permuted == [i \in 1..Len(computeOps) |-> computeOps[f[i]]]
          outcome == getDistributionTileConfigFromLoweringConfig(permuted)
      IN  outcome.status = "failure" /\ outcome.anchor = 1

\* C3: on success the outputs are the array and level-0 interchange of the
\* first op, in input order, that has the interface and a lowering config;
\* they are empty when there is no such op.
C3_FirstContributorReturned ==
  pc = "success" =>
    IF Contributing = {}
    THEN distributedTileSizes = <<>> /\ interchange = <<>>
    ELSE LET first == CHOOSE i \in Contributing : \A j \in Contributing : i <= j
         IN  <<distributedTileSizes, interchange>> = PairOf(computeOps[first])

\* C4: a call's outcome is a function of the list of ops alone: it is the
\* outcome computed from cleared outputs, whatever the output vectors held
\* on entry, and a second call on the same list repeats the first outcome.
C4_OutcomeIndependentOfEntryContents ==
  Done =>
    /\ Outcome = getDistributionTileConfigFromLoweringConfig(computeOps)
    /\ prevOutcome # NoOutcome => Outcome = prevOutcome

\* A second call has completed, entered with the first call's non-empty
\* result still in the output vectors.
C4_Witness ==
  /\ Done
  /\ prevOutcome # NoOutcome
  /\ entryContents[1] # <<>>
  /\ Len(computeOps) >= 2

\* An op with the levels above 0 of its lowering config removed.
TruncateAttr(nested) ==
  IF IsNull(nested) \/ Len(nested.elems) <= 1 THEN nested
  ELSE ArrayAttr(<<nested.elems[1]>>)
Level0Only(op) ==
  IF IsNull(op.lowering_config) THEN op
  ELSE ComputeOp(op.hasInterface, op.partitionableLoops,
                 LoweringConfigAttr(TruncateAttr(op.lowering_config.tileSizes),
                                    TruncateAttr(op.lowering_config.tileInterchange),
                                    op.lowering_config.nativeVectorSize))

\* The level-0 tile sizes as stored in the attribute.
Level0Tiles(op) ==
  LET ts == op.lowering_config.tileSizes
  IN  IF IsNull(ts) \/ ts.elems = <<>> THEN <<>>
      ELSE [k \in DOMAIN ts.elems[1].elems |-> ts.elems[1].elems[k].value]

ArrayAsSpecified(op, arr) ==
  LET P == Range(op.partitionableLoops)
      T == Level0Tiles(op)
  IN  IF P = {} THEN arr = <<>>
      ELSE /\ Len(arr) = Max(P) + 1
           /\ \A id \in 0..Max(P) :
                arr[id + 1] = IF id \in P /\ id < Len(T) THEN T[id + 1] ELSE 0

\* C10: the array built for a contributing op is empty without partitionable
\* loops and otherwise has max(P)+1 entries, T[i] at partitionable i below
\* T's length and 0 elsewhere; every position written lies inside the array;
\* levels above 0 influence neither the array nor the outcome.
C10_DistributedTileSizesArray ==
  /\ \A i \in Contributing :
       LET op == computeOps[i]
       IN  /\ ArrayAsSpecified(op, currDistributedTileSizes(op))
           /\ \A id \in writtenLoopIDs(op.partitionableLoops,
                                       getTileSizeVals(op.lowering_config, 0)) :
                id + 1 \in DOMAIN resized(op.partitionableLoops)
           /\ PairOf(Level0Only(op)) = PairOf(op)
  /\ (pc = "loop" /\ idx = 2 /\ 1 \in Contributing)
       => ArrayAsSpecified(computeOps[1], distributedTileSizes)
  /\ Done => Outcome = getDistributionTileConfigFromLoweringConfig(
                         [i \in DOMAIN computeOps |-> Level0Only(computeOps[i])])

\* The first op has partitionable loops 0 and 2, a single level-0 tile size
\* and a second tiling level; its array has been assigned.
C10_Witness ==
  /\ pc = "loop" /\ idx = 2 /\ 1 \in Contributing
  /\ computeOps[1].partitionableLoops = <<0, 2>>
  /\ ~IsNull(computeOps[1].lowering_config.tileSizes)
  /\ Len(computeOps[1].lowering_config.tileSizes.elems) = 2
  /\ distributedTileSizes = <<8, 0, 0>>

-----------------------------------------------------------------------------
(* Properties of the verifiers.                                             *)

FlatIntegerList(attr) ==
  attr.kind = "array" /\ \A e \in Range(attr.elems) : e.kind = "integer"
MalformedNested(attr) ==
  ~IsNull(attr) /\ \E e \in Range(attr.elems) : ~FlatIntegerList(e)
MalformedFlat(attr) ==
  ~IsNull(attr) /\ \E e \in Range(attr.elems) : e.kind # "integer"

IsLoweringConfigVerify == verified.op = "LoweringConfigAttr::verify"
IsCompilationInfoVerify == verified.op = "CompilationInfoAttr::verify"

\* C6: LoweringConfigAttr::verify fails iff tile_sizes is absent, or an
\* entry of tile_sizes is not a flat list of integers, or tile_interchange
\* is present with such an entry, or native_vector_size is present with a
\* non-integer element; the error is the first of MissingField,
\* MalformedTileSizes, MalformedInterchange, MalformedVectorSize that applies.
C6_LoweringConfigVerify ==
  IsLoweringConfigVerify =>
    LET tileSizes == verified.args[1]
        tileInterchange == verified.args[2]
        nativeVectorSize == verified.args[3]
    IN  /\ verified.result # "ok" <=>
             \/ IsNull(tileSizes)
             \/ MalformedNested(tileSizes)
             \/ MalformedNested(tileInterchange)
             \/ MalformedFlat(nativeVectorSize)
        /\ IsNull(tileSizes) => verified.result = "MissingField"
        /\ MalformedNested(tileSizes) => verified.result = "MalformedTileSizes"
        /\ (~IsNull(tileSizes) /\ ~MalformedNested(tileSizes)
              /\ MalformedNested(tileInterchange))
             => verified.result = "MalformedInterchange"
        /\ (~IsNull(tileSizes) /\ ~MalformedNested(tileSizes)
              /\ ~MalformedNested(tileInterchange) /\ MalformedFlat(nativeVectorSize))
             => verified.result = "MalformedVectorSize"
        /\ (tileSizes = ArrayAttr(<<>>) /\ IsNull(tileInterchange)
              /\ IsNull(nativeVectorSize))
             => verified.result = "ok"

\* tile_sizes is well formed, tile_interchange and native_vector_size are
\* both malformed, and the interchange error is the one returned.
C6_Witness ==
  /\ IsLoweringConfigVerify
  /\ ~IsNull(verified.args[1]) /\ ~MalformedNested(verified.args[1])
  /\ Len(verified.args[1].elems) = MaxLevels
  /\ MalformedNested(verified.args[2])
  /\ MalformedFlat(verified.args[3])
  /\ verified.result = "MalformedInterchange"

LoweringConfigResult(lc) ==
  LoweringConfigAttr_verify(lc.tileSizes, lc.tileInterchange, lc.nativeVectorSize)
TranslationInfoResult(ti) ==
  TranslationInfoAttr_verify(ti.passPipeline, ti.workloadPerWorkgroup)

\* C5 as stated: MissingLoweringConfig whenever the lowering config is
\* absent and MissingTranslationInfo whenever the translation info is absent,
\* whatever the validity of the other sub-object; with both present, the
\* lowering config's failure, then the translation info's, then
\* MalformedWorkgroupSize, otherwise ok.
C5_MissingReportedRegardless ==
  IsCompilationInfoVerify =>
    LET lc == verified.args[1]
        ti == verified.args[2]
        wgs == verified.args[3]
    IN  /\ IsNull(lc) => verified.result = "MissingLoweringConfig"
        /\ (~IsNull(lc) /\ IsNull(ti)) => verified.result = "MissingTranslationInfo"
        /\ (~IsNull(lc) /\ ~IsNull(ti)) =>
             verified.result =
               IF LoweringConfigResult(lc) # "ok" THEN LoweringConfigResult(lc)
               ELSE IF TranslationInfoResult(ti) # "ok" THEN TranslationInfoResult(ti)
               ELSE IF MalformedFlat(wgs) THEN "MalformedWorkgroupSize"
               ELSE "ok"

\* C5 amended: MissingLoweringConfig whenever the lowering config is absent;
\* a present lowering config's own failure is returned next, also when the
\* translation info is absent; MissingTranslationInfo when the lowering
\* config is present and valid and the translation info is absent; then the
\* translation info's own failure, then MalformedWorkgroupSize, otherwise ok.
C5_CompilationInfoVerify ==
  IsCompilationInfoVerify =>
    LET lc == verified.args[1]
        ti == verified.args[2]
        wgs == verified.args[3]
        lcValid == ~IsNull(lc) /\ LoweringConfigResult(lc) = "ok"
        tiValid == ~IsNull(ti) /\ TranslationInfoResult(ti) = "ok"
    IN  /\ IsNull(lc) => verified.result = "MissingLoweringConfig"
        /\ (~IsNull(lc) /\ ~lcValid) => verified.result = LoweringConfigResult(lc)
        /\ (lcValid /\ IsNull(ti)) => verified.result = "MissingTranslationInfo"
        /\ (lcValid /\ ~IsNull(ti) /\ ~tiValid)
             => verified.result = TranslationInfoResult(ti)
        /\ (lcValid /\ tiValid /\ MalformedFlat(wgs))
             => verified.result = "MalformedWorkgroupSize"
        /\ (lcValid /\ tiValid /\ ~MalformedFlat(wgs)) => verified.result = "ok"

\* The lowering config is present but invalid, the translation info is
\* absent, and the lowering config's failure is what is returned.
C5_Witness ==
  /\ IsCompilationInfoVerify
  /\ ~IsNull(verified.args[1])
  /\ LoweringConfigResult(verified.args[1]) = "MalformedInterchange"
  /\ IsNull(verified.args[2])
  /\ verified.result = "MalformedInterchange"

-----------------------------------------------------------------------------
(* Properties of the attachment helpers.                                    *)

\* C8: getTranslationInfo returns the info of the last setTranslationInfo,
\* and getWorkgroupSize the workgroup size of the most recent call that
\* passed a non-empty one (empty if there was none).
C8_TranslationInfoAndWorkgroupSize ==
  /\ getTranslationInfo = history[kTranslationInfoAttrName]
  /\ getWorkgroupSize = lastWorkgroupSize
  /\ lastCall.op = "getWorkgroupSize" => lastCall.result = lastWorkgroupSize

\* setTranslationInfo was just called with an empty workgroup size after an
\* earlier call stored a non-empty one.
C8_Witness ==
  /\ lastCall.op = "setTranslationInfo"
  /\ lastCall.result = <<>>
  /\ lastWorkgroupSize = <<64, 2, 1>>
  /\ getWorkgroupSize = <<64, 2, 1>>

\* C9: under each of the three names, get returns what was set last, or
\* absent if nothing was set or it was erased since; helpers for one name
\* leave the attributes under the other names as they were.
C9_GetReturnsLastSet ==
  /\ getLoweringConfig = history[kConfigAttrName]
  /\ getTranslationInfo = history[kTranslationInfoAttrName]
  /\ getCompilationInfo = history[kCompilationInfoAttrName]
  /\ lastCall.op = "getLoweringConfig" => lastCall.result = history[kConfigAttrName]
  /\ lastCall.op = "getTranslationInfo"
       => lastCall.result = history[kTranslationInfoAttrName]
  /\ lastCall.op = "getCompilationInfo"
       => lastCall.result = history[kCompilationInfoAttrName]

\* A compilation info was attached and has just been erased, while the
\* lowering config and the translation info are still attached.
C9_Witness ==
  /\ lastCall.op = "eraseCompilationInfo"
  /\ ~IsNull(lastCall.result)
  /\ IsNull(getCompilationInfo)
  /\ ~IsNull(getLoweringConfig)
  /\ ~IsNull(getTranslationInfo)

====
